---- MODULE Spec2Model ----
(***************************************************************************)
(* Model of the OpenZWave adapter (src/src/lib.rs): the three IdMaps, the  *)
(* Watchers registry with its WatcherGuards, the notification thread and   *)
(* the Adapter operations called from client threads.                      *)
(***************************************************************************)
EXTENDS FiniteSets, Integers, Sequences, TLC

\* ---------------------------------------------------------------- bounds

\* Notifications the driver places on the stream in one execution.
MaxNotifs == 4
\* Notifications that may wait in the mpsc channel at once.
MaxQueue == 2
\* Requests (id, range) of one register_watch call.
MaxReq == 2

\* ------------------------------------------------------- driver universe

None == <<>>
Some(x) == <<x>>

\* Controller handles of the driver (one per home network).
Controllers == {"c1", "c2"}

\* ValueID handles of the driver.  Door1 and Door2 are the same device
\* (same value id, same label) on two home networks: equal get_id and
\* get_label, different handles.
Values == {"Door1", "Door2", "Siren", "Level", "Config", "Odd"}

get_home_id(c) == IF c = "c1" THEN 1 ELSE 2

get_controller(v) == IF v = "Door2" THEN "c2" ELSE "c1"

get_id(v) ==
    CASE v \in {"Door1", "Door2"} -> 1
      [] v = "Siren" -> 2
      [] v = "Level" -> 3
      [] v = "Config" -> 4
      [] OTHER -> 5

get_label(v) ==
    CASE v \in {"Door1", "Door2"} -> "Door"
      [] v = "Siren" -> "Siren"
      [] v = "Level" -> "Level"
      [] v = "Config" -> "Param"
      [] OTHER -> "Odd"

get_genre(v) == IF v = "Config" THEN "ValueGenre_Config" ELSE "ValueGenre_User"

is_read_only(v) == v \in {"Door1", "Odd"}

is_write_only(v) == v = "Siren"

\* Option<CommandClass>: None for a command class the binding does not know.
get_command_class(v) ==
    CASE v \in {"Door1", "Door2"} -> Some("SensorBinary")
      [] v = "Siren" -> Some("SwitchBinary")
      [] v \in {"Level", "Config"} -> Some("SwitchMultilevel")
      [] OTHER -> None

get_type(v) == IF v = "Level" THEN "ValueType_Byte" ELSE "ValueType_Bool"

\* ------------------------------------------------------------ identifiers

\* TaxId::new(&format!("OpenZWave/{}", home_id))
service_id(c) == <<"OpenZWave", get_home_id(c)>>

\* TaxId::new(&format!("OpenZWave/{} ({})", value.get_id(), value.get_label()))
value_id(v) == <<"OpenZWave", get_id(v), get_label(v)>>

\* A getter id no value of the driver derives.
UnknownId == <<"OpenZWave", 9, "Nothing">>

\* ------------------------------------------------------------- the state

VARIABLES
    rx,             \* mpsc::Receiver<ZWaveNotification>: notifications in flight
    closed,         \* the driver dropped its Sender (stream closed)
    processed,      \* history: the notifications the worker has taken, in order
    ozw,            \* driver-side state of each value: [set, val]
    controller_map, \* IdMap<ServiceId, Controller>
    getter_map,     \* IdMap<Getter, ValueID>
    setter_map,     \* IdMap<Setter, ValueID>
    calls,          \* calls made to the AdapterManagerHandle, in order
    watchers,       \* Watchers: [current_index, map, getter_map]
    watchers_lock,  \* holder of Mutex<Watchers>: "free", "worker" or a client
    wpc,            \* position of the notification thread
    w_value,        \* ValueChanged arm: the value being handled
    w_tax_id,       \* ValueChanged arm: the id found for it
    w_senders,      \* ValueChanged arm: the upgraded senders (Vec<Arc<..>>)
    w_next,         \* ValueChanged arm: position of the for loop in w_senders
    cpc,            \* position of each client thread in register_watch
    creq,           \* register_watch: the requests still to be drained
    cguard,         \* register_watch: the WatcherGuard of the current request
    results,        \* per client: the ResultMap entries it holds, [id, key]
    chan,           \* per channel: the WatchEvents sent on it, in order
    effects,        \* history: the worker's pushes and calls, in program order
    reader,         \* the thread calling fetch_values: [pc, req, res]
    writer,         \* the thread calling send_values: [pc, req, res]
    poisoned        \* the IdMaps whose RwLock is poisoned (lock() gives Err)

vars == <<rx, closed, processed, ozw, controller_map, getter_map, setter_map,
          calls, watchers, watchers_lock, wpc, w_value, w_tax_id, w_senders,
          w_next, cpc, creq, cguard, results, chan, effects, reader, writer,
          poisoned>>

idmaps == <<controller_map, getter_map, setter_map>>
wregs == <<w_value, w_tax_id, w_senders, w_next>>
clientvars == <<cpc, creq, cguard, results>>
drivervars == <<rx, closed, ozw>>
facadevars == <<reader, writer>>

\* Client threads; each creates one channel (the Arc<Mutex<Box<ExtSender>>> of
\* its register_watch call), named after the thread.
Clients == {"t1", "t2"}

\* ------------------------------------------------------------------ IdMap

\* A slip: the pair inserted at the front.
IdMap_push_front(map, id, ozw_object) == <<<<id, ozw_object>>>> \o map

\* IdMap::push: guard.push((id, ozw_object))
IdMap_push(map, id, ozw_object) == Append(map, <<id, ozw_object>>)

\* The first index of map whose entry satisfies the test, as the iterator's
\* find() meets it.
first_of(hits) == CHOOSE i \in hits : \A j \in hits : i <= j

\* IdMap::find_tax_id_from_ozw: the id of the first entry holding needle.
find_tax_id_from_ozw(map, needle) ==
    LET hits == {i \in DOMAIN map : map[i][2] = needle}
    IN  IF hits = {} THEN None ELSE Some(map[first_of(hits)][1])

\* IdMap::find_ozw_from_tax_id: the handle of the first entry with id needle.
find_ozw_from_tax_id(map, needle) ==
    LET hits == {i \in DOMAIN map : map[i][1] = needle}
    IN  IF hits = {} THEN None ELSE Some(map[first_of(hits)][2])

\* ------------------------------------------------------- value translation

\* kind_from_value: SensorBinary is OpenClosed, any other known class Ready.
kind_from_value(v) ==
    LET cc == get_command_class(v)
    IN  IF cc = None THEN None
        ELSE Some(IF cc[1] = "SensorBinary" THEN "OpenClosed" ELSE "Ready")

\* ValueID::as_bool through the driver: Ok for a Bool value, Err otherwise.
as_bool(v) == IF get_type(v) = "ValueType_Bool" THEN Some(ozw[v].val) ELSE None

\* to_open_closed: value.as_bool().ok().map(Open if val, else Closed)
to_open_closed(v) ==
    LET val == as_bool(v)
    IN  IF val = None THEN None
        ELSE Some(IF val[1] THEN "Open" ELSE "Closed")

is_set(v) == ozw[v].set

\* --------------------------------------------------------------- Watchers

\* Watchers::new
Watchers_new == [current_index |-> 0, map |-> <<>>, getter_map |-> <<>>]

\* Strong references to the Arc of channel c: one per entry of the index
\* table, the local `sender` of a running register_watch, and the worker's
\* upgraded Vec while its for loop runs.
strong_count(c) ==
    Cardinality({i \in DOMAIN watchers.map : watchers.map[i] = c})
    + (IF cpc[c] \in {"push", "snap"} THEN 1 ELSE 0)
    + (IF wpc = "send"
       THEN Cardinality({i \in DOMAIN w_senders : w_senders[i] = c}) ELSE 0)

\* Weak::upgrade
upgrade(c) == IF strong_count(c) > 0 THEN Some(c) ELSE None

\* A slip: the index taken from the size of the table.
Watchers_push_reuse(w, tax_id, watcher) ==
    LET index == Cardinality(DOMAIN w.map)
        old == IF tax_id \in DOMAIN w.getter_map
               THEN w.getter_map[tax_id] ELSE <<>>
    IN  [current_index |-> index + 1,
         map |-> [i \in DOMAIN w.map \cup {index} |->
                     IF i = index THEN watcher ELSE w.map[i]],
         getter_map |-> [g \in DOMAIN w.getter_map \cup {tax_id} |->
                     IF g = tax_id THEN Append(old, watcher)
                     ELSE w.getter_map[g]]]

\* Watchers::push: take the next index, insert the Arc under it, append a
\* Weak to the id's vector (created when absent).
Watchers_push(w, tax_id, watcher) ==
    LET index == w.current_index
        old == IF tax_id \in DOMAIN w.getter_map
               THEN w.getter_map[tax_id] ELSE <<>>
    IN  [current_index |-> index + 1,
         map |-> [i \in DOMAIN w.map \cup {index} |->
                     IF i = index THEN watcher ELSE w.map[i]],
         getter_map |-> [g \in DOMAIN w.getter_map \cup {tax_id} |->
                     IF g = tax_id THEN Append(old, watcher)
                     ELSE w.getter_map[g]]]

\* Watchers::get
Watchers_get(w, index) ==
    IF index \in DOMAIN w.map THEN Some(w.map[index]) ELSE None

\* A slip: the senders looked up without regard to the id.
get_from_tax_id_any(tax_id) ==
    IF DOMAIN watchers.getter_map = {} THEN None
    ELSE LET vec == SelectSeq(<<"t1", "t2">>, LAMBDA c : upgrade(c) # None)
         IN  IF Len(vec) = 0 THEN None ELSE Some(vec)

\* Watchers::get_from_tax_id: the upgradable senders of the id's vector, None
\* when the id has no vector or none upgrades.
get_from_tax_id(tax_id) ==
    IF tax_id \notin DOMAIN watchers.getter_map THEN None
    ELSE LET vec == SelectSeq(watchers.getter_map[tax_id],
                              LAMBDA c : upgrade(c) # None)
         IN  IF Len(vec) = 0 THEN None ELSE Some(vec)

\* Drop for WatcherGuard: map.remove(&self.key)
WatcherGuard_drop(w, key) ==
    [w EXCEPT !.map = [i \in DOMAIN w.map \ {key} |-> w.map[i]]]

\* ------------------------------------------------------------------- Init

\* OpenzwaveAdapter::init: empty maps, no watcher, the thread waiting on rx.
Init ==
    /\ rx = <<>>
    /\ closed = FALSE
    /\ processed = <<>>
    /\ ozw = [v \in Values |-> [set |-> FALSE, val |-> FALSE]]
    /\ controller_map = <<>>
    /\ getter_map = <<>>
    /\ setter_map = <<>>
    /\ calls = <<>>
    /\ watchers = Watchers_new
    /\ watchers_lock = "free"
    /\ wpc = "idle"
    /\ w_value = "Door1"
    /\ w_tax_id = UnknownId
    /\ w_senders = <<>>
    /\ w_next = 1
    /\ cpc = [t \in Clients |-> "start"]
    /\ creq = [t \in Clients |-> <<>>]
    /\ cguard = [t \in Clients |-> 0]
    /\ results = [t \in Clients |-> {}]
    /\ chan = [t \in Clients |-> <<>>]
    /\ effects = <<>>
    /\ reader = [pc |-> "start", set |-> <<>>, req |-> <<>>, res |-> <<>>]
    /\ writer = [pc |-> "start", req |-> {}, res |-> <<>>]
    /\ poisoned = {}

\* ----------------------------------------------------------------- driver

Notification(kind, obj) == [kind |-> kind, obj |-> obj]

\* The notification kinds the worker's match ignores (NodeNew, NodeAdded,
\* NodeRemoved, ValueRemoved, Generic, and the `other` arm).
IgnoredKinds ==
    {"NodeNew", "NodeAdded", "NodeRemoved", "ValueRemoved", "Generic", "Other"}

CanEmit ==
    /\ ~closed
    /\ Len(processed) + Len(rx) < MaxNotifs
    /\ Len(rx) < MaxQueue

\* The driver sends a notification on the stream.
DriverNotify(n) ==
    /\ CanEmit
    /\ rx' = Append(rx, n)
    /\ UNCHANGED <<effects, facadevars, poisoned,
                   closed, processed, ozw, idmaps, calls, watchers,
                   watchers_lock, wpc, wregs, clientvars, chan>>

\* The driver receives a new state for value v and reports ValueChanged.
DriverChange(v, b) ==
    /\ CanEmit
    /\ ozw' = [ozw EXCEPT ![v] = [set |-> TRUE, val |-> b]]
    /\ rx' = Append(rx, Notification("ValueChanged", v))
    /\ UNCHANGED <<effects, facadevars, poisoned,
                   closed, processed, idmaps, calls, watchers,
                   watchers_lock, wpc, wregs, clientvars, chan>>

\* The driver shuts down: the Sender is dropped.
DriverClose ==
    /\ ~closed
    /\ closed' = TRUE
    /\ UNCHANGED <<effects, facadevars, poisoned,
                   rx, processed, ozw, idmaps, calls, watchers,
                   watchers_lock, wpc, wregs, clientvars, chan>>

\* ------------------------------------------------- the notification thread

Call(op, id, service) == [op |-> op, id |-> id, service |-> service]

\* Entries of the effects history.
Pushed(map, id) == <<"push", map, id>>
Called(op, id) == <<"call", op, id>>

\* self.map.write() / self.map.read() of the named IdMap gives Err.
lock_fails(map) == map \in poisoned

\* A slip: add_service before the push.
controller_ready_effects_swapped(controller) ==
    <<Called("add_service", service_id(controller))>>
    \o (IF lock_fails("controller_map") THEN <<>>
        ELSE <<Pushed("controller_map", service_id(controller))>>)

\* ControllerReady arm, in program order: the push (nothing on Err, which the
\* arm does not look at), then add_service.
controller_ready_effects(controller) ==
    (IF lock_fails("controller_map") THEN <<>>
     ELSE <<Pushed("controller_map", service_id(controller))>>)
    \o <<Called("add_service", service_id(controller))>>

\* ControllerReady arm: push the service id, then add_service.
OnControllerReady(controller) ==
    /\ controller_map' =
          IF lock_fails("controller_map") THEN controller_map
          ELSE IdMap_push(controller_map, service_id(controller), controller)
    /\ calls' = Append(calls, Call("add_service", service_id(controller),
                                   service_id(controller)))
    /\ effects' = effects \o controller_ready_effects(controller)
    /\ UNCHANGED <<getter_map, setter_map, wpc, wregs>>

\* let has_getter = !value.is_write_only();
has_getter(value) == ~is_write_only(value)

\* A slip: the setter test copied from the getter test.
has_setter_copied(value) == ~is_write_only(value)

\* let has_setter = !value.is_read_only();
has_setter(value) == ~is_read_only(value)

\* A slip: the genre filter left out.
is_wired_any_genre(value) ==
    /\ find_tax_id_from_ozw(controller_map, get_controller(value)) # None
    /\ kind_from_value(value) # None

\* ValueAdded arm, the three `continue`s: the value is wired only if it is of
\* the user genre, its controller has an id and its command class has a kind.
is_wired(value) ==
    /\ get_genre(value) = "ValueGenre_User"
    /\ find_tax_id_from_ozw(controller_map, get_controller(value)) # None
    /\ kind_from_value(value) # None

\* ValueAdded arm, in program order: getter push (nothing on Err, which the
\* arm does not look at) and add_getter, then setter push and add_setter.
value_added_effects(value) ==
    (IF has_getter(value)
     THEN (IF lock_fails("getter_map") THEN <<>>
           ELSE <<Pushed("getter_map", value_id(value))>>)
          \o <<Called("add_getter", value_id(value))>>
     ELSE <<>>)
    \o (IF has_setter(value)
        THEN (IF lock_fails("setter_map") THEN <<>>
              ELSE <<Pushed("setter_map", value_id(value))>>)
             \o <<Called("add_setter", value_id(value))>>
        ELSE <<>>)

\* ValueAdded arm: getter push and add_getter, then setter push and add_setter.
\* The controller lookup is unwrapped: on Err the thread panics.
OnValueAdded(value) ==
    LET controller_id ==
            find_tax_id_from_ozw(controller_map, get_controller(value))[1]
        getter_calls ==
            IF has_getter(value)
            THEN <<Call("add_getter", value_id(value), controller_id)>>
            ELSE <<>>
        setter_calls ==
            IF has_setter(value)
            THEN <<Call("add_setter", value_id(value), controller_id)>>
            ELSE <<>>
    IN  IF get_genre(value) = "ValueGenre_User" /\ lock_fails("controller_map")
        THEN /\ wpc' = "panicked"
             /\ UNCHANGED <<idmaps, calls, effects, wregs>>
        ELSE
        /\ IF is_wired(value)
           THEN /\ getter_map' =
                      IF has_getter(value) /\ ~lock_fails("getter_map")
                      THEN IdMap_push(getter_map, value_id(value), value)
                      ELSE getter_map
                /\ setter_map' =
                      IF has_setter(value) /\ ~lock_fails("setter_map")
                      THEN IdMap_push(setter_map, value_id(value), value)
                      ELSE setter_map
                /\ calls' = calls \o getter_calls \o setter_calls
                /\ effects' = effects \o value_added_effects(value)
           ELSE UNCHANGED <<getter_map, setter_map, calls, effects>>
        /\ UNCHANGED <<controller_map, wpc, wregs>>

\* ValueChanged arm up to the registry lock: non-bool values, values with no
\* getter id and a lookup that gives Err are skipped (`_ => continue`).
OnValueChanged(value) ==
    LET tax_id == find_tax_id_from_ozw(getter_map, value)
    IN  /\ IF /\ get_type(value) = "ValueType_Bool"
              /\ ~lock_fails("getter_map")
              /\ tax_id # None
           THEN /\ wpc' = "lock"
                /\ w_value' = value
                /\ w_tax_id' = tax_id[1]
                /\ UNCHANGED <<w_senders, w_next>>
           ELSE UNCHANGED <<wpc, wregs>>
        /\ UNCHANGED <<idmaps, calls, effects>>

\* for notification in rx { match notification { ... } }
WorkerRecv ==
    /\ wpc = "idle"
    /\ rx # <<>>
    /\ rx' = Tail(rx)
    /\ processed' = Append(processed, Head(rx))
    /\ CASE Head(rx).kind = "ControllerReady" -> OnControllerReady(Head(rx).obj)
         [] Head(rx).kind = "ValueAdded" -> OnValueAdded(Head(rx).obj)
         [] Head(rx).kind = "ValueChanged" -> OnValueChanged(Head(rx).obj)
         [] OTHER -> UNCHANGED <<idmaps, calls, effects, wpc, wregs>>
    /\ UNCHANGED <<closed, ozw, watchers, watchers_lock, clientvars, chan,
                   facadevars, poisoned>>

\* ValueChanged arm: watchers.lock() and get_from_tax_id; with no sender the
\* arm continues and the lock guard is dropped at once.
WorkerLock ==
    /\ wpc = "lock"
    /\ watchers_lock = "free"
    /\ LET found == get_from_tax_id(w_tax_id)
       IN  IF found = None
           THEN /\ wpc' = "idle"
                /\ UNCHANGED <<watchers_lock, wregs>>
           ELSE /\ wpc' = "send"
                /\ watchers_lock' = "worker"
                /\ w_senders' = found[1]
                /\ w_next' = 1
                /\ UNCHANGED <<w_value, w_tax_id>>
    /\ UNCHANGED <<effects, facadevars, poisoned,
                   drivervars, processed, idmaps, calls, watchers,
                   clientvars, chan>>

Enter(id, value, from) == [id |-> id, value |-> value, from |-> from]

\* A slip: the registry lock guard kept after the loop.
WorkerSend_leak ==
    /\ wpc = "send"
    /\ LET sender == w_senders[w_next]
           value == to_open_closed(w_value)
       IN  chan' = IF value = None THEN chan
                   ELSE [chan EXCEPT ![sender] =
                           Append(@, [id |-> w_tax_id, value |-> value[1],
                                      from |-> "worker"])]
    /\ IF w_next < Len(w_senders)
       THEN /\ w_next' = w_next + 1
            /\ UNCHANGED <<wpc, w_senders>>
       ELSE /\ wpc' = "idle"
            /\ w_senders' = <<>>
            /\ w_next' = 1
    /\ UNCHANGED <<effects, facadevars, poisoned,
                   drivervars, processed, idmaps, calls, watchers,
                   watchers_lock, w_value, w_tax_id, clientvars>>

\* One turn of `for sender in &watchers`: lock the sender, send the event.
\* After the last turn the Vec and the registry lock guard go out of scope.
WorkerSend ==
    /\ wpc = "send"
    /\ LET sender == w_senders[w_next]
           value == to_open_closed(w_value)
       IN  chan' = IF value = None THEN chan
                   ELSE [chan EXCEPT ![sender] =
                           Append(@, Enter(w_tax_id, value[1], "worker"))]
    /\ IF w_next < Len(w_senders)
       THEN /\ w_next' = w_next + 1
            /\ UNCHANGED <<wpc, watchers_lock, w_senders>>
       ELSE /\ wpc' = "idle"
            /\ watchers_lock' = "free"
            /\ w_senders' = <<>>
            /\ w_next' = 1
    /\ UNCHANGED <<effects, facadevars, poisoned,
                   drivervars, processed, idmaps, calls, watchers,
                   w_value, w_tax_id, clientvars>>

\* A slip: the loop ends whenever the stream is empty.
WorkerExit_early ==
    /\ wpc = "idle"
    /\ rx = <<>>
    /\ wpc' = "done"
    /\ UNCHANGED <<effects, facadevars, poisoned,
                   drivervars, processed, idmaps, calls, watchers,
                   watchers_lock, wregs, clientvars, chan>>

\* The stream is closed and drained: the for loop ends and the thread exits.
WorkerExit ==
    /\ wpc = "idle"
    /\ rx = <<>>
    /\ closed
    /\ wpc' = "done"
    /\ UNCHANGED <<effects, facadevars, poisoned,
                   drivervars, processed, idmaps, calls, watchers,
                   watchers_lock, wregs, clientvars, chan>>

\* --------------------------------------------------------- register_watch

\* The request vectors a client may pass: 1..MaxReq ids drawn from ids (the
\* optional range is accepted and not used).
RECURSIVE SeqsUpTo(_, _)
SeqsUpTo(ids, n) ==
    IF n = 0 THEN {<<>>}
    ELSE LET shorter == SeqsUpTo(ids, n - 1)
         IN  shorter \cup {Append(q, id) : q \in shorter, id \in ids}

Requests(ids) == SeqsUpTo(ids, MaxReq) \ {<<>>}

\* register_watch is called: the sender is wrapped in a new Arc<Mutex<..>>.
RegisterWatch(t, values) ==
    /\ cpc[t] = "start"
    /\ cpc' = [cpc EXCEPT ![t] = "push"]
    /\ creq' = [creq EXCEPT ![t] = values]
    /\ UNCHANGED <<effects, facadevars, poisoned,
                   drivervars, processed, idmaps, calls, watchers,
                   watchers_lock, wpc, wregs, cguard, results, chan>>

\* The closure's first block: lock the registry, Watchers::push, unlock.
RegisterPush(t) ==
    /\ cpc[t] = "push"
    /\ watchers_lock = "free"
    /\ watchers' = Watchers_push(watchers, Head(creq[t]), t)
    /\ cguard' = [cguard EXCEPT ![t] = watchers.current_index]
    /\ cpc' = [cpc EXCEPT ![t] = "snap"]
    /\ UNCHANGED <<effects, facadevars, poisoned,
                   drivervars, processed, idmaps, calls, watchers_lock,
                   wpc, wregs, creq, results, chan>>

\* "if there is a set value already, let's send it": the event the closure
\* sends for id, None when it sends nothing.
initial_event(id) ==
    LET ozw_value == find_ozw_from_tax_id(getter_map, id)
    IN  IF /\ ozw_value # None
           /\ is_set(ozw_value[1])
           /\ get_type(ozw_value[1]) = "ValueType_Bool"
           /\ to_open_closed(ozw_value[1]) # None
        THEN Some(Enter(id, to_open_closed(ozw_value[1])[1], "register"))
        ELSE None

\* collect() into the ResultMap: the entry (id, Ok(guard)) replaces an earlier
\* entry of the same id, whose guard is dropped.
replaced_by(held, id) == {e \in held : e.id = id}

RECURSIVE drop_all(_, _)
drop_all(w, keys) ==
    IF keys = {} THEN w
    ELSE LET k == CHOOSE k \in keys : TRUE
         IN  drop_all(WatcherGuard_drop(w, k), keys \ {k})

\* The rest of the closure for one request: the initial event, then the
\* (id, guard) pair joins the result; after the last request the call returns.
\* The getter lookup is unwrapped: on Err the call panics, and the unwinding
\* drops the guard of this request and the guards collected so far.
RegisterSnapshot(t) ==
    /\ cpc[t] = "snap"
    /\ IF lock_fails("getter_map")
       THEN /\ cpc' = [cpc EXCEPT ![t] = "panicked"]
            /\ results' = [results EXCEPT ![t] = {}]
            /\ watchers' = drop_all(watchers, {e.key : e \in results[t]}
                                              \cup {cguard[t]})
            /\ UNCHANGED <<creq, chan>>
       ELSE /\ LET id == Head(creq[t])
                   event == initial_event(id)
                   replaced == replaced_by(results[t], id)
               IN  /\ chan' = IF event = None THEN chan
                              ELSE [chan EXCEPT ![t] = Append(@, event[1])]
                   /\ results' = [results EXCEPT ![t] =
                         (@ \ replaced) \cup {[id |-> id, key |-> cguard[t]]}]
                   /\ watchers' = drop_all(watchers, {e.key : e \in replaced})
            /\ creq' = [creq EXCEPT ![t] = Tail(@)]
            /\ cpc' = [cpc EXCEPT ![t] =
                         IF Len(creq[t]) > 1 THEN "push" ELSE "done"]
    /\ UNCHANGED <<effects, facadevars, poisoned,
                   drivervars, processed, idmaps, calls, watchers_lock,
                   wpc, wregs, cguard>>

\* The caller releases one of the guards register_watch returned to it.
DropGuard(t, e) ==
    /\ cpc[t] = "done"
    /\ e \in results[t]
    /\ watchers' = WatcherGuard_drop(watchers, e.key)
    /\ results' = [results EXCEPT ![t] = @ \ {e}]
    /\ UNCHANGED <<effects, facadevars, poisoned,
                   drivervars, processed, idmaps, calls, watchers_lock,
                   wpc, wregs, cpc, creq, cguard, chan>>

\* ------------------------------------------------ fetch_values, send_values

Ok(x) == [tag |-> "Ok", val |-> x]
NoSuchGetter(id) == [tag |-> "NoSuchGetter", val |-> <<id>>]

\* A slip: the is_set test left out.
fetch_value_unchecked(id) ==
    LET ozw_value == find_ozw_from_tax_id(getter_map, id)
    IN  IF ozw_value = None THEN NoSuchGetter(id)
        ELSE IF get_type(ozw_value[1]) = "ValueType_Bool"
             THEN Ok(to_open_closed(ozw_value[1]))
             ELSE Ok(Some("Unit"))

\* The closure of fetch_values for one id, past the unwrap of the lookup.
fetch_value(id) ==
    LET ozw_value == find_ozw_from_tax_id(getter_map, id)
    IN  IF ozw_value = None THEN NoSuchGetter(id)
        ELSE IF ~is_set(ozw_value[1]) THEN Ok(None)
        ELSE IF get_type(ozw_value[1]) = "ValueType_Bool"
             THEN Ok(to_open_closed(ozw_value[1]))
             ELSE Ok(Some("Unit"))

\* fetch_values is called with the Vec `set`.
FetchValues(set) ==
    /\ reader.pc = "start"
    /\ reader' = [pc |-> "run", set |-> set, req |-> set, res |-> <<>>]
    /\ UNCHANGED <<drivervars, processed, idmaps, calls, watchers,
                   watchers_lock, wpc, wregs, clientvars, chan, effects,
                   writer, poisoned>>

\* One turn of drain(..).map(..).collect(): the pair (id, value_result) joins
\* the ResultMap, replacing an earlier pair of the same id.  The lookup is
\* unwrapped: on Err the call panics.
FetchStep ==
    /\ reader.pc = "run"
    /\ reader' =
          IF lock_fails("getter_map")
          THEN [reader EXCEPT !.pc = "panicked", !.res = <<>>]
          ELSE [reader EXCEPT
                  !.pc = IF Len(reader.req) > 1 THEN "run" ELSE "done",
                  !.req = Tail(@),
                  !.res = (Head(reader.req) :> fetch_value(Head(reader.req)))
                          @@ @]
    /\ UNCHANGED <<drivervars, processed, idmaps, calls, watchers,
                   watchers_lock, wpc, wregs, clientvars, chan, effects,
                   writer, poisoned>>

\* send_values is called with the ids `values` maps: unimplemented!() panics
\* and the call never returns.
SendValues(values) ==
    /\ writer.pc = "start"
    /\ writer' = [pc |-> "panicked", req |-> values, res |-> <<>>]
    /\ UNCHANGED <<drivervars, processed, idmaps, calls, watchers,
                   watchers_lock, wpc, wregs, clientvars, chan, effects,
                   reader, poisoned>>

\* The RwLock of the named IdMap becomes poisoned: from now on write() and
\* read() on it give Err.
Poison(map) ==
    /\ map \notin poisoned
    /\ poisoned' = poisoned \cup {map}
    /\ UNCHANGED <<drivervars, processed, idmaps, calls, watchers,
                   watchers_lock, wpc, wregs, clientvars, chan, effects,
                   facadevars>>

\* --------------------------------------------------------- specifications

\* The watch specification: the driver reports one controller and its door
\* sensor, then state changes of the sensor, while clients register watches
\* and release them.  Client t1 passes up to MaxReq requests, t2 one.
WatchScript ==
    <<Notification("ControllerReady", "c1"), Notification("ValueAdded", "Door1")>>

Emitted == Len(processed) + Len(rx)

DriverWatch ==
    \/ /\ Emitted < Len(WatchScript)
       /\ DriverNotify(WatchScript[Emitted + 1])
    \/ /\ Emitted >= Len(WatchScript)
       /\ \E b \in BOOLEAN : DriverChange("Door1", b)

WatchIds == {value_id("Door1"), UnknownId}

RequestsOf(t) ==
    IF t = "t1" THEN Requests(WatchIds) ELSE {<<id>> : id \in WatchIds}

ClientStep ==
    \/ \E t \in Clients : \E values \in RequestsOf(t) : RegisterWatch(t, values)
    \/ \E t \in Clients : RegisterPush(t)
    \/ \E t \in Clients : RegisterSnapshot(t)
    \/ \E t \in Clients : \E e \in results[t] : DropGuard(t, e)

Next == DriverWatch \/ WorkerRecv \/ WorkerLock \/ WorkerSend \/ ClientStep

Spec == Init /\ [][Next]_vars

\* The discovery specification: every notification kind for every driver
\* object, in any order, changes of a value that is not boolean and of one
\* that never gets a getter id, and no client.
DiscoveryNotifs ==
    {Notification("ControllerReady", c) : c \in Controllers}
    \cup {Notification("ValueAdded", v) : v \in Values}
    \cup {Notification(k, "-") : k \in IgnoredKinds}

DriverDiscovery ==
    \/ \E n \in DiscoveryNotifs : DriverNotify(n)
    \/ \E v \in {"Level", "Odd"} : DriverChange(v, TRUE)

NextDiscovery == DriverDiscovery \/ WorkerRecv

SpecDiscovery == Init /\ [][NextDiscovery]_vars

\* The facade specification: the driver reports one controller, its door
\* sensor and its dimmer level, then state changes of both, while one caller
\* reads up to MaxReq ids and another writes.
FacadeScript ==
    <<Notification("ControllerReady", "c1"), Notification("ValueAdded", "Door1"),
      Notification("ValueAdded", "Level")>>

DriverFacade ==
    \/ /\ Emitted < Len(FacadeScript)
       /\ DriverNotify(FacadeScript[Emitted + 1])
    \/ /\ Emitted >= Len(FacadeScript)
       /\ \E v \in {"Door1", "Level"} : \E b \in BOOLEAN : DriverChange(v, b)

FetchIds == {value_id("Door1"), value_id("Level"), UnknownId}

WriteIds == {value_id("Level"), UnknownId}

NextFacade ==
    \/ DriverFacade
    \/ WorkerRecv
    \/ WorkerLock
    \/ \E set \in Requests(FetchIds) : FetchValues(set)
    \/ FetchStep
    \/ \E values \in SUBSET WriteIds \ {{}} : SendValues(values)

SpecFacade == Init /\ [][NextFacade]_vars

\* The fault specification: as the driver reports a controller, its values
\* and their changes, the lock of any IdMap may become poisoned; one caller
\* reads one id.
IdMaps == {"controller_map", "getter_map", "setter_map"}

FaultNotifs ==
    {Notification("ControllerReady", "c1")}
    \cup {Notification("ValueAdded", v) : v \in {"Door1", "Level"}}

DriverFault ==
    \/ \E n \in FaultNotifs : DriverNotify(n)
    \/ \E b \in BOOLEAN : DriverChange("Door1", b)

NextFault ==
    \/ DriverFault
    \/ \E map \in IdMaps : Poison(map)
    \/ WorkerRecv
    \/ WorkerLock
    \/ \E id \in FetchIds : FetchValues(<<id>>)
    \/ FetchStep

SpecFault == Init /\ [][NextFault]_vars

\* The frame specification: the driver reports one controller, its door
\* sensor and its dimmer level, with notifications of the ignored kinds in
\* between and state changes of the sensor once it is reported, while client
\* t1 registers one watch and releases it.
Discovered ==
    Cardinality({i \in DOMAIN (processed \o rx) :
                    (processed \o rx)[i].kind \in {"ControllerReady",
                                                   "ValueAdded"}})

DriverFrame ==
    \/ /\ Discovered < Len(FacadeScript)
       /\ DriverNotify(FacadeScript[Discovered + 1])
    \/ \E k \in IgnoredKinds : DriverNotify(Notification(k, "-"))
    \/ /\ Discovered >= 2
       /\ \E b \in BOOLEAN : DriverChange("Door1", b)

NextFrame ==
    \/ DriverFrame
    \/ WorkerRecv
    \/ WorkerLock
    \/ WorkerSend
    \/ \E id \in WatchIds : RegisterWatch("t1", <<id>>)
    \/ RegisterPush("t1")
    \/ RegisterSnapshot("t1")
    \/ \E e \in results["t1"] : DropGuard("t1", e)

SpecFrame == Init /\ [][NextFrame]_vars

\* The stream specification: the driver reports a controller, a value of it,
\* a value of a controller it never reported, an ignored notification and
\* changes of the value (wired or not yet), in any order, and may shut down
\* at any time; client t1 registers one watch.  The worker thread is
\* scheduled whenever it can take a step.
StreamNotifs ==
    {Notification("ControllerReady", "c1"), Notification("ValueAdded", "Door1"),
     Notification("ValueAdded", "Door2"), Notification("NodeRemoved", "-")}

DriverStream ==
    \/ \E n \in StreamNotifs : DriverNotify(n)
    \/ DriverChange("Door1", TRUE)
    \/ DriverClose

NextStream ==
    \/ DriverStream
    \/ WorkerRecv
    \/ WorkerLock
    \/ WorkerSend
    \/ WorkerExit
    \/ RegisterWatch("t1", <<value_id("Door1")>>)
    \/ RegisterPush("t1")
    \/ RegisterSnapshot("t1")

SpecStream ==
    /\ Init
    /\ [][NextStream]_vars
    /\ WF_vars(WorkerRecv)
    /\ WF_vars(WorkerLock)
    /\ WF_vars(WorkerSend)
    /\ WF_vars(WorkerExit)

\* The guard specification: the driver reports one controller and its door
\* sensor, then that the sensor opened, while clients register watches and
\* release them and one caller reads the sensor.  Client t1 passes two
\* requests, t2 one.
DriverGuards ==
    \/ /\ Emitted < Len(WatchScript)
       /\ DriverNotify(WatchScript[Emitted + 1])
    \/ /\ Emitted >= Len(WatchScript)
       /\ DriverChange("Door1", TRUE)

GuardRequests(t) ==
    IF t = "t1"
    THEN {<<value_id("Door1"), UnknownId>>, <<value_id("Door1"), value_id("Door1")>>}
    ELSE {<<value_id("Door1")>>, <<UnknownId>>}

NextGuards ==
    \/ DriverGuards
    \/ WorkerRecv
    \/ WorkerLock
    \/ WorkerSend
    \/ \E t \in Clients : \E values \in GuardRequests(t) : RegisterWatch(t, values)
    \/ \E t \in Clients : RegisterPush(t)
    \/ \E t \in Clients : RegisterSnapshot(t)
    \/ \E t \in Clients : \E e \in results[t] : DropGuard(t, e)
    \/ FetchValues(<<value_id("Door1")>>)
    \/ FetchStep

SpecGuards == Init /\ [][NextGuards]_vars

\* ------------------------------------------------------ claim vocabulary

\* The subscriptions of channel c under id that are still alive: guards the
\* caller holds, and the guard of the request register_watch is handling.
LiveSubs(c, id) ==
    {e.key : e \in {x \in results[c] : x.id = id}}
    \cup (IF cpc[c] = "snap" /\ Head(creq[c]) = id THEN {cguard[c]} ELSE {})

Count(seq, x) == Cardinality({i \in DOMAIN seq : seq[i] = x})

\* No register_watch call is running and the worker is not in its send loop.
Quiet == wpc # "send" /\ \A c \in Clients : cpc[c] \in {"start", "done"}

\* The step is the worker taking a notification of this kind.
Takes(kind) ==
    /\ wpc = "idle"
    /\ rx # <<>>
    /\ processed' # processed
    /\ Head(rx).kind = kind

\* C1: on a channel registered once under an id, the event sent by
\* register_watch for that id comes before every event the worker sends on
\* the channel for the same id.
C1_InitialEventFirst ==
    \A c \in Clients : \A i \in DOMAIN chan[c] : \A j \in DOMAIN chan[c] :
        ( /\ i < j
          /\ chan[c][i].from = "worker"
          /\ chan[c][j].from = "register"
          /\ chan[c][i].id = chan[c][j].id
          /\ chan[c][i].id \in DOMAIN watchers.getter_map )
        => Count(watchers.getter_map[chan[c][i].id], c) > 1

\* C2: once no subscription under an id is alive, get_from_tax_id of that id
\* returns None, also when a channel that was subscribed under it is still
\* subscribed under another id.
C2_DroppedIsInactive ==
    \A id \in WatchIds :
        (Quiet /\ \A c \in Clients : LiveSubs(c, id) = {})
        => get_from_tax_id(id) = None

\* C3: the worker sends an event for an id on a channel only while the
\* channel holds an unreleased subscription under that id.
C3_NoEventAfterDrop ==
    [][\A c \in Clients :
          ( /\ Len(chan'[c]) > Len(chan[c])
            /\ chan'[c][Len(chan'[c])].from = "worker" )
          => LiveSubs(c, chan'[c][Len(chan'[c])].id) # {}]_vars

\* C4: while the worker is in its send loop the registry lock is free.
C4_SendsOutsideRegistryLock == wpc = "send" => watchers_lock = "free"

\* C5: the lookup of the ValueChanged arm yields each channel once per live
\* subscription under the value's getter id, and each turn of the loop sends
\* on its channel one event carrying the id and the value's open/closed state.
C5_EventPerLiveSubscription ==
    [][ /\ (wpc = "lock" /\ wpc' # "lock")
           => \A c \in Clients :
                 LiveSubs(c, w_tax_id) # {}
                 => Count(IF wpc' = "send" THEN w_senders' ELSE <<>>, c)
                      = Cardinality(LiveSubs(c, w_tax_id))
        /\ (wpc = "send" /\ (wpc' # "send" \/ w_next' # w_next))
           => chan' = [chan EXCEPT ![w_senders[w_next]] =
                         Append(@, Enter(w_tax_id,
                                         IF ozw[w_value].val
                                         THEN "Open" ELSE "Closed",
                                         "worker"))] ]_vars

\* C6: in each IdMap no two entries share an id and no two share a handle.
UniqueEntries(map) ==
    \A i \in DOMAIN map : \A j \in DOMAIN map :
        i # j => (map[i][1] # map[j][1] /\ map[i][2] # map[j][2])

C6_UniqueIdsAndHandles ==
    /\ UniqueEntries(controller_map)
    /\ UniqueEntries(getter_map)
    /\ UniqueEntries(setter_map)

\* C7: an entry whose handle is in no other entry is what both lookups
\* return for its id and its handle; an id or handle in no entry finds None.
LookupsAgree(map, ids, handles) ==
    /\ \A i \in DOMAIN map :
          (\A j \in DOMAIN map : j # i => map[j][2] # map[i][2])
          => /\ find_ozw_from_tax_id(map, map[i][1]) = Some(map[i][2])
             /\ find_tax_id_from_ozw(map, map[i][2]) = Some(map[i][1])
    /\ \A id \in ids :
          (\A i \in DOMAIN map : map[i][1] # id)
          => find_ozw_from_tax_id(map, id) = None
    /\ \A h \in handles :
          (\A i \in DOMAIN map : map[i][2] # h)
          => find_tax_id_from_ozw(map, h) = None

ValueIds == {value_id(v) : v \in Values} \cup {UnknownId}

C7_LookupReturnsInserted ==
    /\ LookupsAgree(controller_map, {service_id(c) : c \in Controllers},
                    Controllers)
    /\ LookupsAgree(getter_map, ValueIds, Values)
    /\ LookupsAgree(setter_map, ValueIds, Values)

\* C8 (as claimed): a ValueAdded of a user-genre value whose controller is in
\* the controller map appends the value to the getter map with one add_getter
\* call exactly if it is not write-only, and to the setter map with one
\* add_setter call exactly if it is not read-only.
CallsOf(op, id) == Count([i \in DOMAIN calls |-> <<calls[i].op, calls[i].id>>],
                         <<op, id>>)

Wires(value) ==
    /\ getter_map' = IF ~is_write_only(value)
                     THEN Append(getter_map, <<value_id(value), value>>)
                     ELSE getter_map
    /\ setter_map' = IF ~is_read_only(value)
                     THEN Append(setter_map, <<value_id(value), value>>)
                     ELSE setter_map
    /\ Len(calls') = Len(calls) + (IF ~is_write_only(value) THEN 1 ELSE 0)
                                + (IF ~is_read_only(value) THEN 1 ELSE 0)
    /\ \A i \in DOMAIN calls' : i > Len(calls) =>
          /\ calls'[i].id = value_id(value)
          /\ calls'[i].service = service_id(get_controller(value))
          /\ calls'[i].op =
                IF i = Len(calls) + 1 /\ ~is_write_only(value)
                THEN "add_getter" ELSE "add_setter"

ControllerKnown(value) ==
    \E i \in DOMAIN controller_map : controller_map[i][2] = get_controller(value)

C8_Original ==
    [][(Takes("ValueAdded")
        /\ get_genre(Head(rx).obj) = "ValueGenre_User"
        /\ ControllerKnown(Head(rx).obj))
       => Wires(Head(rx).obj)]_vars

\* C8 (amended): the same, for a value whose command class the driver
\* binding knows; a value with an unknown command class is not wired at all.
C8_ValueAddedWires ==
    [][(Takes("ValueAdded")
        /\ get_genre(Head(rx).obj) = "ValueGenre_User"
        /\ ControllerKnown(Head(rx).obj))
       => IF get_command_class(Head(rx).obj) # None
          THEN Wires(Head(rx).obj)
          ELSE UNCHANGED <<getter_map, setter_map, calls>>]_vars

HasEntry(map, value) == \E i \in DOMAIN map : map[i] = <<value_id(value), value>>

\* A read-only value got its getter and no setter, a write-only value its
\* setter and no getter, and a value of unknown command class was taken and
\* is in neither map.
C8_Witness ==
    /\ HasEntry(getter_map, "Door1") /\ ~HasEntry(setter_map, "Door1")
    /\ CallsOf("add_getter", value_id("Door1")) = 1
    /\ CallsOf("add_setter", value_id("Door1")) = 0
    /\ HasEntry(setter_map, "Siren") /\ ~HasEntry(getter_map, "Siren")
    /\ \E i \in DOMAIN processed : processed[i] = Notification("ValueAdded", "Odd")
    /\ ~HasEntry(getter_map, "Odd") /\ ~HasEntry(setter_map, "Odd")

\* C9: a ValueAdded of a value that is not of the user genre, or whose
\* controller is not in the controller map, changes neither the getter map
\* nor the setter map and makes no call; a ControllerReady adds nothing to
\* the getter and setter maps and makes no add_getter or add_setter call.
C9_FilteredValueIsDropped ==
    [][ /\ (Takes("ValueAdded")
            /\ (get_genre(Head(rx).obj) # "ValueGenre_User"
                \/ ~ControllerKnown(Head(rx).obj)))
           => UNCHANGED <<getter_map, setter_map, calls>>
        /\ Takes("ControllerReady")
           => /\ UNCHANGED <<getter_map, setter_map>>
              /\ \A i \in DOMAIN calls' :
                    i > Len(calls) => calls'[i].op = "add_service" ]_vars

\* A user-genre value was taken before its controller was ready, a value of
\* another genre after it, the controller's ControllerReady has been taken
\* since, and neither value is in a map.
C9_Witness ==
    /\ \E i \in DOMAIN processed : \E j \in DOMAIN processed :
          /\ i < j
          /\ processed[i] = Notification("ValueAdded", "Door2")
          /\ processed[j] = Notification("ControllerReady", "c2")
          /\ \A k \in DOMAIN processed :
                processed[k] = Notification("ValueAdded", "Door2") => k < j
    /\ \E i \in DOMAIN processed :
          processed[i] = Notification("ValueAdded", "Config")
    /\ \A i \in DOMAIN getter_map : getter_map[i][2] \notin {"Door2", "Config"}
    /\ \A i \in DOMAIN setter_map : setter_map[i][2] \notin {"Door2", "Config"}

\* C10: when the worker looks up the watchers of an id under which no
\* subscription is alive, it sends nothing, changes no map and no registry
\* table, and returns to the stream.
C10_NoWatcherNoEffect ==
    [][(wpc = "lock" /\ wpc' # "lock"
        /\ \A c \in Clients : LiveSubs(c, w_tax_id) = {})
       => /\ wpc' = "idle"
          /\ UNCHANGED <<chan, idmaps, watchers, calls>>]_vars

\* C14: when a lock acquisition fails while the worker handles a notification
\* (the insert of ControllerReady or ValueAdded, the lookup of ValueAdded or
\* ValueChanged), the worker terminates in that step.
LockFailure ==
    \/ /\ Takes("ControllerReady")
       /\ "controller_map" \in poisoned
    \/ /\ Takes("ValueAdded")
       /\ get_genre(Head(rx).obj) = "ValueGenre_User"
       /\ "controller_map" \in poisoned
    \/ /\ Takes("ValueAdded")
       /\ get_genre(Head(rx).obj) = "ValueGenre_User"
       /\ ControllerKnown(Head(rx).obj)
       /\ get_command_class(Head(rx).obj) # None
       /\ \/ ~is_write_only(Head(rx).obj) /\ "getter_map" \in poisoned
          \/ ~is_read_only(Head(rx).obj) /\ "setter_map" \in poisoned
    \/ /\ Takes("ValueChanged")
       /\ get_type(Head(rx).obj) = "ValueType_Bool"
       /\ "getter_map" \in poisoned

C14_LockFailureStopsWorker ==
    [][LockFailure => wpc' \notin {"idle", "lock", "send"}]_vars

\* C11: each turn of fetch_values adds to the result the pair of the id it
\* handles and leaves the pairs of the other ids as they were: NoSuchGetter(id)
\* for an id with no getter entry, Ok(None) for a value the driver never set,
\* Ok(Some(Open or Closed)) for a set boolean value, Ok(Some(Unit)) for a set
\* value of another type.  When the call returns the result has one pair per
\* requested id, and no step of the call changes anything but the call.
Expected(id) ==
    IF \A i \in DOMAIN getter_map : getter_map[i][1] # id
    THEN [tag |-> "NoSuchGetter", val |-> <<id>>]
    ELSE LET v == find_ozw_from_tax_id(getter_map, id)[1]
         IN  [tag |-> "Ok",
              val |-> IF ~ozw[v].set THEN <<>>
                      ELSE IF get_type(v) = "ValueType_Bool"
                           THEN <<IF ozw[v].val THEN "Open" ELSE "Closed">>
                           ELSE <<"Unit">>]

C11_ReadPerId ==
    [][ /\ reader' # reader
           => UNCHANGED <<drivervars, processed, idmaps, calls, watchers,
                          watchers_lock, wpc, wregs, clientvars, chan>>
        /\ (reader.pc = "run" /\ reader' # reader)
           => LET id == Head(reader.req)
              IN  /\ DOMAIN reader'.res = DOMAIN reader.res \cup {id}
                  /\ reader'.res[id] = Expected(id)
                  /\ \A other \in DOMAIN reader.res \ {id} :
                        reader'.res[other] = reader.res[other]
        /\ reader'.pc = "done"
           => DOMAIN reader'.res
                = {reader'.set[i] : i \in DOMAIN reader'.set} ]_vars

\* A read of an id with no getter entry and of the door sensor returned
\* NoSuchGetter for the first and the sensor's open state for the second.
C11_Witness ==
    /\ reader.pc = "done"
    /\ reader.set = <<UnknownId, value_id("Door1")>>
    /\ reader.res[UnknownId].tag = "NoSuchGetter"
    /\ reader.res[value_id("Door1")] = [tag |-> "Ok", val |-> <<"Open">>]

\* C12: when register_watch handles an id that has no entry in the getter
\* map, the result carries no subscription guard for that id.
C12_MissYieldsNoGuard ==
    [][\A t \in Clients :
          ( /\ cpc[t] = "snap"
            /\ cpc'[t] # "snap"
            /\ \A i \in DOMAIN getter_map : getter_map[i][1] # Head(creq[t]) )
          => \A e \in results'[t] : e.id # Head(creq[t])]_vars

\* C13: once send_values has been called it has returned, with a
\* NotImplemented error for every id of the request.
C13_WriteReturnsNotImplemented ==
    writer.pc # "start"
    => /\ writer.pc = "done"
       /\ DOMAIN writer.res = writer.req
       /\ \A id \in writer.req : writer.res[id].tag = "NotImplemented"

\* C15: in every step each IdMap's content is a prefix of its content after
\* the step; a step in which the worker takes a NodeNew, NodeAdded,
\* NodeRemoved, ValueRemoved, Generic or unrecognized notification changes no
\* IdMap and no Watchers table, makes no call and sends nothing.
IsPrefix(a, b) == Len(a) <= Len(b) /\ \A i \in DOMAIN a : b[i] = a[i]

C15_AppendOnly ==
    [][ /\ IsPrefix(controller_map, controller_map')
        /\ IsPrefix(getter_map, getter_map')
        /\ IsPrefix(setter_map, setter_map')
        /\ (\E k \in IgnoredKinds : Takes(k))
           => UNCHANGED <<idmaps, watchers, calls, chan>> ]_vars

\* With two getters wired and a subscription alive, the worker has just
\* taken a notification of an ignored kind.
C15_Witness ==
    /\ Len(getter_map) = 2
    /\ setter_map # <<>>
    /\ DOMAIN watchers.map # {}
    /\ processed # <<>>
    /\ processed[Len(processed)].kind \in IgnoredKinds

\* C16: the worker is done only when the stream is closed and empty, and
\* never stops otherwise; notifications leave the stream at its head and join
\* the processed ones at the end, so that the sequence of all notifications
\* sent only grows; every notification sent is eventually processed; once
\* the stream is closed the worker eventually terminates.
C16_RunsUntilStreamCloses ==
    /\ [](wpc \in {"idle", "lock", "send", "done"})
    /\ [](wpc = "done" => closed /\ rx = <<>>)
    /\ [][ /\ IsPrefix(processed \o rx, processed' \o rx')
           /\ IsPrefix(processed, processed')
           /\ Len(processed') <= Len(processed) + 1 ]_vars
    /\ \A n \in 1..MaxNotifs :
          (Len(processed) + Len(rx) >= n) ~> (Len(processed) >= n)
    /\ closed ~> (wpc = "done")

\* The worker has terminated after taking MaxNotifs notifications, among
\* them a value of an unknown controller and a change it sent to a subscriber.
C16_Witness ==
    /\ wpc = "done"
    /\ \E i \in DOMAIN processed :
          processed[i] = Notification("ValueAdded", "Door2")
    /\ chan["t1"] # <<>>
    /\ Len(processed) = MaxNotifs

\* C17: every key of the index table and every index a guard holds is below
\* current_index, which never decreases; no index is held by two guards; a
\* push inserts under the index that current_index had, which no guard holds;
\* when guards are dropped, Watchers::get finds None for their indices and
\* every other entry of the table is as before.
GuardKeys(t) == {e.key : e \in results[t]}

HeldKeys(t) ==
    GuardKeys(t) \cup (IF cpc[t] = "snap" THEN {cguard[t]} ELSE {})

C17_IndicesNeverReused ==
    /\ [](\A k \in DOMAIN watchers.map : k < watchers.current_index)
    /\ [](\A t \in Clients :
             /\ \A k \in HeldKeys(t) : k < watchers.current_index
             /\ Cardinality(GuardKeys(t)) = Cardinality(results[t])
             /\ cpc[t] = "snap" => cguard[t] \notin GuardKeys(t)
             /\ \A u \in Clients \ {t} : HeldKeys(t) \cap HeldKeys(u) = {})
    /\ [][ /\ watchers'.current_index >= watchers.current_index
           /\ watchers'.current_index # watchers.current_index
              => /\ watchers'.current_index = watchers.current_index + 1
                 /\ DOMAIN watchers'.map
                      = DOMAIN watchers.map \cup {watchers.current_index}
                 /\ watchers.current_index \notin DOMAIN watchers.map
                 /\ \A t \in Clients :
                       watchers.current_index \notin HeldKeys(t)
           /\ \A t \in Clients :
                 LET dropped == GuardKeys(t) \ GuardKeys(t)'
                 IN  dropped # {}
                     => /\ \A k \in dropped : Watchers_get(watchers', k) = None
                        /\ DOMAIN watchers'.map = DOMAIN watchers.map \ dropped
                        /\ \A k \in DOMAIN watchers'.map :
                              watchers'.map[k] = watchers.map[k] ]_vars

\* Three indices were assigned, the guard of the first was dropped and the
\* guards of the other two are held.
C17_Witness ==
    /\ watchers.current_index = 3
    /\ DOMAIN watchers.map = {1, 2}
    /\ \E t \in Clients : 2 \in GuardKeys(t)
    /\ \E t \in Clients : 1 \in GuardKeys(t)

\* C18: the registry lock is held only by the worker inside its send loop,
\* where each turn can be taken (no sender lock is held across a step); a
\* caller in the snapshot part of register_watch, a caller dropping a guard
\* and a caller of fetch_values can take their step whoever holds the
\* registry lock; and whenever some thread is inside an operation, one of
\* them is not waiting for a lock another holds.
WaitsForRegistry ==
    (IF wpc = "lock" THEN {"worker"} ELSE {})
    \cup {t \in Clients : cpc[t] = "push"}

InOperation ==
    (IF wpc \in {"lock", "send"} THEN {"worker"} ELSE {})
    \cup {t \in Clients : cpc[t] \in {"push", "snap"}}
    \cup (IF reader.pc = "run" THEN {"reader"} ELSE {})

PushesOf(map) ==
    SelectSeq(effects, LAMBDA e : e[1] = "push" /\ e[2] = map)

IdsOf(map) == [i \in DOMAIN map |-> map[i][1]]

MapOf(op) ==
    CASE op = "add_service" -> "controller_map"
      [] op = "add_getter" -> "getter_map"
      [] op = "add_setter" -> "setter_map"

C19_CallsAfterInserts ==
    /\ \A i \in DOMAIN calls :
          calls[i].op \in {"add_getter", "add_setter"}
          => \E j \in 1..(i - 1) :
                /\ calls[j].op = "add_service"
                /\ calls[j].id = calls[i].service
    /\ \A i \in DOMAIN effects :
          effects[i][1] = "call"
          => \E j \in 1..(i - 1) :
                effects[j] = <<"push", MapOf(effects[i][2]), effects[i][3]>>
    /\ SelectSeq(effects, LAMBDA e : e[1] = "call")
         = [i \in DOMAIN calls |-> <<"call", calls[i].op, calls[i].id>>]
    /\ [i \in DOMAIN PushesOf("controller_map") |->
           PushesOf("controller_map")[i][3]] = IdsOf(controller_map)
    /\ [i \in DOMAIN PushesOf("getter_map") |->
           PushesOf("getter_map")[i][3]] = IdsOf(getter_map)
    /\ [i \in DOMAIN PushesOf("setter_map") |->
           PushesOf("setter_map")[i][3]] = IdsOf(setter_map)

\* Both controllers are ready, and a getter and a setter were added for a
\* value of the first and a getter for a value of the second.
C19_Witness ==
    /\ \E i \in DOMAIN calls :
          /\ calls[i].op = "add_setter"
          /\ calls[i].id = value_id("Level")
          /\ calls[i].service = service_id("c1")
    /\ \E i \in DOMAIN calls :
          /\ calls[i].op = "add_getter"
          /\ calls[i].id = value_id("Door2")
          /\ calls[i].service = service_id("c2")

\* C20: whenever an event is pushed on a channel, its id has an entry in the
\* getter map and the channel was registered under that id before the push;
\* hence every event a channel holds carries an id the channel registered.
RegisteredUnder(c, id) ==
    /\ id \in DOMAIN watchers.getter_map
    /\ \E i \in DOMAIN watchers.getter_map[id] : watchers.getter_map[id][i] = c

C20_SubscriberIsolation ==
    /\ [][\A c \in Clients :
             chan'[c] # chan[c]
             => /\ Len(chan'[c]) = Len(chan[c]) + 1
                /\ IsPrefix(chan[c], chan'[c])
                /\ \E i \in DOMAIN getter_map :
                      getter_map[i][1] = chan'[c][Len(chan'[c])].id
                /\ RegisteredUnder(c, chan'[c][Len(chan'[c])].id)]_vars
    /\ [](\A c \in Clients : \A i \in DOMAIN chan[c] :
             RegisteredUnder(c, chan[c][i].id))

\* Channel t1 received the sensor's event from the worker while channel t2,
\* subscribed under another id only, received nothing.
C20_Witness ==
    /\ \E i \in DOMAIN chan["t1"] :
          /\ chan["t1"][i].from = "worker"
          /\ chan["t1"][i].id = value_id("Door1")
    /\ results["t2"] = {[id |-> UnknownId, key |-> cguard["t2"]]}
    /\ wpc = "idle"
    /\ chan["t2"] = <<>>

====
